---------------------------- MODULE Spec2Model ----------------------------
(***************************************************************************)
(* Traffic-control action layer of libnl (lib/route/act.c): the ordered,   *)
(* length-bounded chain of reference-counted action objects, the nested    *)
(* attribute codec (rtnl_act_fill / rtnl_act_parse) and the cache adapter  *)
(* (act_msg_parser).                                                       *)
(*                                                                         *)
(* Memory is modelled as a sequence of object slots (addresses 1..n).  A   *)
(* destroyed object keeps its slot and its last field values (free() does  *)
(* not clear memory); a later allocation may be handed a fresh address or  *)
(* the address of a destroyed object.  A read through a pointer to a       *)
(* destroyed object sets the flag uaf.                                     *)
(***************************************************************************)
EXTENDS Integers, Sequences, FiniteSets, TLC

VARIABLES
    objs,    \* the heap: Seq of struct rtnl_act, indexed by address
    head,    \* the caller's chain head (struct rtnl_act *), NULL when empty
    ret,     \* return value of the last call
    last,    \* the last call: its name, its argument, the addresses it allocated
    uaf,     \* TRUE once a destroyed object has been dereferenced
    msg,     \* payload of the container attribute (built or received)
    cbLog,   \* addresses handed to the per-object callback, in call order
    nlh,     \* header of the received message (type, family, what it holds)
    req      \* request building: the caller's result pointer, the messages
             \* allocated and the messages handed to the transport

vars == <<objs, head, ret, last, uaf, msg, cbLog, nlh, req>>

---------------------------------------------------------------------------
(* Program constants *)

TCA_ACT_MAX_PRIO == 32
TCKINDSIZ == 32

NULL == 0

RTM_NEWACTION == 48
RTM_DELACTION == 49
AF_UNSPEC == 0

OK               == "0"
NLE_FAILURE      == "-NLE_FAILURE"
NLE_NOMEM        == "-NLE_NOMEM"
NLE_RANGE        == "-NLE_RANGE"
NLE_MSGSIZE      == "-NLE_MSGSIZE"
NLE_OBJ_NOTFOUND == "-NLE_OBJ_NOTFOUND"
NLE_MISSING_ATTR == "-NLE_MISSING_ATTR"
NLE_MSG_TOOSHORT == "-NLE_MSG_TOOSHORT"
\* the call does not return (a loop over a cyclic chain)
DIVERGES         == "diverges"
\* no call has been made yet
NONE             == "none"

---------------------------------------------------------------------------
(* Bounds of the model *)

\* objects the application may use in any way (get, put, remove, re-append)
MaxPlay == 2
\* addresses available beyond TCA_ACT_MAX_PRIO
ExtraAddrs == 2
\* objects of an input chain whose content is chosen freely
MaxFree == 2
\* low order indices a received container may use (besides those around
\* TCA_ACT_MAX_PRIO)
LowIdx == 3
\* attribute headers a short message has room for
MaxRoom == 3
\* scale factors of the counters in a received statistics block
MaxScale == 2
\* actions in a message received by the cache adapter
MaxCacheLen == 3
\* invocation at which the per-object callback may stop the delivery
MaxStop == 2
\* references an application takes on one object with rtnl_act_get
MaxGets == 1
\* times one object may be destroyed (a second time is a double release)
MaxFrees == 2

NumAddrs == TCA_ACT_MAX_PRIO + ExtraAddrs

---------------------------------------------------------------------------
(* struct rtnl_act / struct rtnl_tc *)

NoKind == [c |-> "", n |-> 0]
\* tc_opts not set (no TCA_ATTR_OPTS)
NoOpts == <<>>
\* zeroed kind-specific data (rtnl_tc_data)
NoData == 0

StatIds == {"BYTES", "PACKETS", "RATE_BPS", "RATE_PPS", "DROPS", "OVERLIMITS"}
ZeroStats == [s \in StatIds |-> 0]

\* rtnl_act_alloc: a zeroed object holding one reference
NewAct ==
    [ st |-> "live", ce_refcnt |-> 1, a_next |-> NULL, tc_kind |-> NoKind,
      tc_opts |-> NoOpts, tc_data |-> NoData, tc_stats |-> ZeroStats,
      ce_msgtype |-> 0, tc_family |-> 0, frees |-> 0 ]

Addrs(o) == 1..Len(o)
Live(o, a) == a \in Addrs(o) /\ o[a].st = "live"
Freed(o) == {a \in Addrs(o) : o[a].st = "freed"}

\* the addresses rtnl_act_alloc may return: one never used, or that of a
\* destroyed object (the allocator may hand the memory out again)
AllocChoices(o, cap) ==
    (IF Len(o) < cap THEN {Len(o) + 1} ELSE {}) \cup Freed(o)

AllocAt(o, a) ==
    IF a = Len(o) + 1 THEN Append(o, NewAct) ELSE [o EXCEPT ![a] = NewAct]

\* nl_object_get
ObjGet(o, a) == [o EXCEPT ![a].ce_refcnt = @ + 1]

\* nl_object_put: drop one reference, destroy the object when none is left
ObjPut(o, a) ==
    LET r == o[a].ce_refcnt - 1 IN
    IF r <= 0
    THEN [o EXCEPT ![a].ce_refcnt = r, ![a].st = "freed", ![a].frees = @ + 1]
    ELSE [o EXCEPT ![a].ce_refcnt = r]

---------------------------------------------------------------------------
(* The chain *)

RECURSIVE Walk(_, _, _)
Walk(o, p, fuel) ==
    IF p = NULL \/ fuel = 0 THEN <<>>
    ELSE <<p>> \o Walk(o, o[p].a_next, fuel - 1)

\* the objects reached from h by a_next; one more than Len(o) when cyclic
Chain(o, h) == Walk(o, h, Len(o) + 1)
Cyclic(o, h) == Len(Chain(o, h)) > Len(o)
Range(s) == {s[i] : i \in 1..Len(s)}
Members(o, h) == Range(Chain(o, h))
TouchesFreed(o, s) == \E a \in s : o[a].st = "freed"

\* rtnl_act_next
rtnl_act_next(o, a) == IF a = NULL THEN NULL ELSE o[a].a_next

\* rtnl_act_append(&h, new): [objs, head, ret, uaf]
rtnl_act_append(o, h, new) ==
    IF h = NULL THEN [objs |-> o, head |-> new, ret |-> OK, uaf |-> FALSE]
    ELSE
        LET c == Chain(o, h) IN
        IF Len(c) > Len(o)
        THEN [objs |-> o, head |-> h, ret |-> DIVERGES,
              uaf |-> TouchesFreed(o, Range(c))]
        ELSE
        LET count == Len(c)
            p_act == c[Len(c)]
            u == TouchesFreed(o, Range(c))
        IN  IF count > TCA_ACT_MAX_PRIO
            THEN [objs |-> o, head |-> h, ret |-> NLE_RANGE, uaf |-> u]
            ELSE [objs |-> [o EXCEPT ![p_act].a_next = new], head |-> h,
                  ret |-> OK, uaf |-> u]

\* position of the first object of chain c that the walk of
\* rtnl_act_remove stops at, 0 when it reaches the end
SameContent(x, y) == [x EXCEPT !.a_next = NULL] = [y EXCEPT !.a_next = NULL]
SameByContent(o, a, act) == SameContent(o[a], o[act])
\* the comparison a == act: identity of the object
Same(o, a, act) == a = act

FirstAt(o, c, act) ==
    LET hits == {i \in 1..Len(c) : Same(o, c[i], act)} IN
    IF hits = {} THEN 0 ELSE CHOOSE i \in hits : \A j \in hits : i <= j

\* a remove that unlinks the object but leaves its own a_next as it was
remove_KeepNext(o, h, act) ==
    LET c == Chain(o, h)
        k == FirstAt(o, c, act)
    IN  IF k = 0
        THEN [objs |-> o, head |-> h,
              ret |-> IF Cyclic(o, h) THEN DIVERGES ELSE NLE_OBJ_NOTFOUND,
              uaf |-> TouchesFreed(o, Range(c))]
        ELSE
            LET a == c[k]
                o1 == IF k = 1 THEN o ELSE [o EXCEPT ![c[k - 1]].a_next = o[a].a_next]
                h1 == IF k = 1 THEN o[a].a_next ELSE h
            IN  [objs |-> o1, head |-> h1, ret |-> OK,
                 uaf |-> TouchesFreed(o, {c[i] : i \in 1..k})]

\* rtnl_act_remove(&h, act): [objs, head, ret, uaf]
rtnl_act_remove(o, h, act) ==
    LET c == Chain(o, h)
        k == FirstAt(o, c, act)
    IN  IF k = 0
        THEN [objs |-> o, head |-> h,
              ret |-> IF Cyclic(o, h) THEN DIVERGES ELSE NLE_OBJ_NOTFOUND,
              uaf |-> TouchesFreed(o, Range(c))]
        ELSE
            LET a == c[k]
                o1 == IF k = 1 THEN o ELSE [o EXCEPT ![c[k - 1]].a_next = o[a].a_next]
                h1 == IF k = 1 THEN o[a].a_next ELSE h
            IN  [objs |-> [o1 EXCEPT ![a].a_next = NULL], head |-> h1, ret |-> OK,
                 uaf |-> TouchesFreed(o, {c[i] : i \in 1..k})]

RECURSIVE PutEach(_, _)
PutEach(o, c) == IF c = <<>> THEN o ELSE PutEach(ObjPut(o, Head(c)), Tail(c))

\* rtnl_act_put_all without the final *head = NULL
put_all_KeepHead(o, h) ==
    IF Cyclic(o, h)
    THEN [objs |-> o, head |-> h, ret |-> DIVERGES, uaf |-> TRUE]
    ELSE [objs |-> PutEach(o, Chain(o, h)), head |-> h, ret |-> OK,
          uaf |-> TouchesFreed(o, Members(o, h))]

\* rtnl_act_put_all(&h): [objs, head, ret, uaf]
rtnl_act_put_all(o, h) ==
    IF Cyclic(o, h)
    THEN [objs |-> o, head |-> h, ret |-> DIVERGES, uaf |-> TRUE]
    ELSE [objs |-> PutEach(o, Chain(o, h)), head |-> NULL, ret |-> OK,
          uaf |-> TouchesFreed(o, Members(o, h))]

---------------------------------------------------------------------------
(* The application using the list operations *)

\* fault injected into a call (allocation or kind parser failure)
NoFault == [at |-> 0, what |-> "none"]
Fault(i, w) == [at |-> i, what |-> w]

\* behaviour of the per-object callback: it returns 0 until its stop-th
\* invocation (never, when stop is 0), which returns code
NoCb == [stop |-> 0, code |-> OK]

\* header of a received message: nlmsg_type, tca_family, whether the
\* header parses and whether TCA_ACT_TAB is there
NoHdr == [type |-> 0, family |-> 0, hdr_ok |-> TRUE, has_tab |-> FALSE]

\* no message built: *result as the caller left it (unwritten), no message
\* allocated, nothing sent
Unwritten == "unwritten"
NoReq == [result |-> Unwritten, msgs |-> <<>>, sent |-> <<>>]

Call(op, arg) ==
    [op |-> op, arg |-> arg, allocd |-> <<>>, decoded |-> <<>>,
     flt |-> NoFault, reuse |-> FALSE, cb |-> NoCb,
     which |-> "", flags |-> {}, bflt |-> "none", dret |-> NONE]

Init ==
    /\ objs = <<>>
    /\ head = NULL
    /\ ret = NONE
    /\ last = Call("init", 0)
    /\ uaf = FALSE
    /\ msg = <<>>
    /\ cbLog = <<>>
    /\ nlh = NoHdr
    /\ req = NoReq

Returned == ret # DIVERGES

\* a chain built by allocating and appending in sequence: every object is
\* live with one reference, and all of them (but possibly the newest) are
\* linked, those past MaxPlay in allocation order
Straight ==
    LET c == Chain(objs, head) IN
    /\ ~uaf /\ ~Cyclic(objs, head)
    /\ \A a \in Addrs(objs) :
          objs[a].st = "live" /\ objs[a].ce_refcnt = 1 /\ objs[a].frees = 0
    /\ Addrs(objs) \ {Len(objs)} \subseteq Range(c)
    /\ \A i \in 1..Len(c) : i > MaxPlay => c[i] = i

\* while at most MaxPlay objects exist the application uses them freely;
\* a longer chain is grown in sequence, and there the application may take
\* one step off the straight path, or go on with the newest object
Play == Len(objs) <= MaxPlay
Hot ==
    IF Play \/ Straight THEN {a \in Addrs(objs) : Live(objs, a)}
    ELSE {a \in {Len(objs)} : Live(objs, a)}

\* the application's own references: those it took with rtnl_act_get, and
\* the initial one while the object is not in the chain
OwnsRef(a) == objs[a].ce_refcnt > 1 \/ a \notin Members(objs, head)

Alloc ==
    /\ Returned
    /\ \E a \in AllocChoices(objs, NumAddrs) :
        /\ Len(objs) >= MaxPlay =>
              a = Len(objs) + 1 /\ Straight /\ Len(objs) \in Members(objs, head)
        /\ objs' = AllocAt(objs, a)
        /\ last' = Call("alloc", a)
    /\ ret' = OK
    /\ UNCHANGED <<head, uaf, msg, cbLog, nlh, req>>

ApplyList(r) ==
    /\ objs' = r.objs
    /\ head' = r.head
    /\ ret' = r.ret
    /\ uaf' = (uaf \/ r.uaf)

AppendAct ==
    /\ Returned
    /\ \E a \in Hot :
        /\ ApplyList(rtnl_act_append(objs, head, a))
        /\ last' = Call("append", a)
    /\ UNCHANGED <<msg, cbLog, nlh, req>>

RemoveAct ==
    /\ Returned
    /\ \E a \in Hot :
        /\ ApplyList(rtnl_act_remove(objs, head, a))
        /\ last' = Call("remove", a)
    /\ UNCHANGED <<msg, cbLog, nlh, req>>

GetAct ==
    /\ Returned
    /\ Play
    /\ \E a \in Hot :
        /\ objs[a].ce_refcnt <= MaxGets
        /\ objs' = ObjGet(objs, a)
        /\ last' = Call("get", a)
    /\ ret' = OK
    /\ UNCHANGED <<head, uaf, msg, cbLog, nlh, req>>

PutAct ==
    /\ Returned
    /\ Play
    /\ \E a \in Hot :
        /\ OwnsRef(a)
        /\ objs' = ObjPut(objs, a)
        /\ last' = Call("put", a)
    /\ ret' = OK
    /\ UNCHANGED <<head, uaf, msg, cbLog, nlh, req>>

PutAllAct ==
    /\ Returned
    /\ \A a \in Members(objs, head) : objs[a].frees < MaxFrees
    /\ ApplyList(rtnl_act_put_all(objs, head))
    /\ last' = Call("put_all", head)
    /\ UNCHANGED <<msg, cbLog, nlh, req>>

Next == Alloc \/ AppendAct \/ RemoveAct \/ GetAct \/ PutAct \/ PutAllAct

Spec == Init /\ [][Next]_vars

---------------------------------------------------------------------------
(* Netlink attributes.  An attribute is [type, val]; the payload of a nest *)
(* is a sequence of attributes.  A message has room for a number of        *)
(* attribute headers; nla_nest_start and nla_put fail when it is used up.  *)

Attr(t, v) == [type |-> t, val |-> v]

Max(S) == CHOOSE x \in S : \A y \in S : y <= x

\* the element of a set of one element
TheOne(S) == CHOOSE x \in S : TRUE

\* nla_parse(tb, maxtype, ...): tb[t] is the last attribute of type t, for
\* the types up to maxtype; <<>> stands for a NULL entry
NlaParse(attrs, types) ==
    [t \in types |->
        LET hits == {k \in 1..Len(attrs) : attrs[k].type = t} IN
        IF hits = {} THEN <<>> ELSE <<attrs[Max(hits)]>>]

\* the attribute types of one action (TCA_ACT_*) and of a statistics block
ActTypes == {"KIND", "OPTIONS", "STATS"}
StatTypes == {"BASIC", "QUEUE", "RATE_EST", "RATE_EST64"}

\* a kind name: the character c repeated n times
Kind(c, n) == [c |-> c, n |-> n]

\* nla_strlcpy(kind, attr, sizeof(kind)): at most TCKINDSIZ - 1 characters
nla_strlcpy(k) == IF k.n >= TCKINDSIZ THEN Kind(k.c, TCKINDSIZ - 1) ELSE k

\* rtnl_tc_get_ops: the operations registered for a kind ("A" has none)
NoOps == [fill |-> FALSE, fill_raw |-> FALSE, parser |-> FALSE]
Registry(k) ==
    IF k = Kind("B", 1) THEN [fill |-> TRUE, fill_raw |-> FALSE, parser |-> TRUE]
    ELSE IF k = Kind("C", 1) THEN [fill |-> FALSE, fill_raw |-> TRUE, parser |-> FALSE]
    ELSE NoOps

\* a message under construction: the inner nests written so far and the
\* attribute headers used
EmptyMsg == [tab |-> <<>>, used |-> 0]

\* add an attribute to the inner nest being written (the last of tab)
PutInner(m, a) ==
    [tab |-> [m.tab EXCEPT ![Len(m.tab)].val = Append(@, a)], used |-> m.used + 1]

\* rtnl_act_fill_one: [m, ret]
rtnl_act_fill_one(m, act, order, room) ==
    IF m.used >= room THEN [m |-> m, ret |-> NLE_NOMEM]
    ELSE
    LET m1 == [tab |-> Append(m.tab, Attr(order, <<>>)), used |-> m.used + 1]
        hasKind == act.tc_kind # NoKind
        ops == Registry(act.tc_kind)
        data == act.tc_data
    IN
    IF hasKind /\ m1.used >= room THEN [m |-> m1, ret |-> NLE_NOMEM]
    ELSE
    LET m2 == IF hasKind THEN PutInner(m1, Attr("KIND", act.tc_kind)) ELSE m1 IN
    IF ops.fill
    THEN \* OPTIONS nest, filled by to_msg_fill
         IF m2.used >= room THEN [m |-> m2, ret |-> NLE_NOMEM]
         ELSE IF m2.used + 1 >= room
         THEN [m |-> PutInner(m2, Attr("OPTIONS", <<>>)), ret |-> NLE_MSGSIZE]
         ELSE [m |-> [tab |-> PutInner(m2, Attr("OPTIONS", <<Attr("KOPT", data)>>)).tab,
                      used |-> m2.used + 2],
               ret |-> OK]
    ELSE IF ops.fill_raw
    THEN \* to_msg_fill_raw writes its attributes itself
         IF m2.used >= room THEN [m |-> m2, ret |-> NLE_MSGSIZE]
         ELSE [m |-> PutInner(m2, Attr("OPTIONS", <<Attr("RAW", data)>>)), ret |-> OK]
    ELSE [m |-> m2, ret |-> OK]

\* an order counter that advances by two
OrderSkipping(order) == order + 2

\* the value of ++order
PreIncrement(order) == order + 1

RECURSIVE FillLoop(_, _, _, _, _)
FillLoop(o, p_act, order, m, room) ==
    IF p_act = NULL THEN [m |-> m, ret |-> OK]
    ELSE LET r == rtnl_act_fill_one(m, o[p_act], PreIncrement(order), room) IN
         IF r.ret # OK THEN r
         ELSE FillLoop(o, o[p_act].a_next, PreIncrement(order), r.m, room)

\* rtnl_act_fill(msg, attrtype, act): [m, ret]; a message of room 0 cannot
\* take the outer nest
rtnl_act_fill(o, act, room) ==
    IF room = 0 THEN [m |-> EmptyMsg, ret |-> NLE_MSGSIZE]
    ELSE FillLoop(o, act, 0, [tab |-> <<>>, used |-> 1], room)

---------------------------------------------------------------------------
(* rtnl_act_parse *)

\* the address rtnl_act_alloc returns: a new one, or (reuse) that of a
\* destroyed object when there is one
AllocAddr(o, reuse) ==
    IF reuse /\ Freed(o) # {} THEN Max(Freed(o)) ELSE Len(o) + 1

\* nla_parse_nested(tb3, TCA_STATS_MAX, attr, tc_act_stats_policy) fails
\* on a sub-attribute shorter than its minlen
StatsPolicyOk(stats) == \A k \in 1..Len(stats) : stats[k].val.len_ok

\* the statistics written by the 32-bit estimate even when the 64-bit one
\* is present
StatsDecode32First(s0, tb3) ==
    LET s1 == IF tb3["BASIC"] # <<>>
              THEN [s0 EXCEPT !["BYTES"] = tb3["BASIC"][1].val.a,
                              !["PACKETS"] = tb3["BASIC"][1].val.b]
              ELSE s0
        s2 == IF tb3["RATE_EST"] # <<>>
              THEN [s1 EXCEPT !["RATE_BPS"] = tb3["RATE_EST"][1].val.a,
                              !["RATE_PPS"] = tb3["RATE_EST"][1].val.b]
              ELSE IF tb3["RATE_EST64"] # <<>>
              THEN [s1 EXCEPT !["RATE_BPS"] = tb3["RATE_EST64"][1].val.a,
                              !["RATE_PPS"] = tb3["RATE_EST64"][1].val.b]
              ELSE s1
    IN  IF tb3["QUEUE"] # <<>>
        THEN [s2 EXCEPT !["DROPS"] = tb3["QUEUE"][1].val.a,
                        !["OVERLIMITS"] = tb3["QUEUE"][1].val.b]
        ELSE s2

\* a decoder that stores the QUEUE counters where those of BASIC belong
StatsDecodeQueueAsBasic(s0, tb3) ==
    LET s1 == IF tb3["BASIC"] # <<>>
              THEN [s0 EXCEPT !["BYTES"] = tb3["BASIC"][1].val.a,
                              !["PACKETS"] = tb3["BASIC"][1].val.b]
              ELSE s0
        s2 == IF tb3["RATE_EST64"] # <<>>
              THEN [s1 EXCEPT !["RATE_BPS"] = tb3["RATE_EST64"][1].val.a,
                              !["RATE_PPS"] = tb3["RATE_EST64"][1].val.b]
              ELSE IF tb3["RATE_EST"] # <<>>
              THEN [s1 EXCEPT !["RATE_BPS"] = tb3["RATE_EST"][1].val.a,
                              !["RATE_PPS"] = tb3["RATE_EST"][1].val.b]
              ELSE s1
    IN  IF tb3["QUEUE"] # <<>>
        THEN [s2 EXCEPT !["BYTES"] = tb3["QUEUE"][1].val.a,
                        !["PACKETS"] = tb3["QUEUE"][1].val.b]
        ELSE s2

\* the writes to tc->tc_stats for a parsed statistics block
StatsDecode(s0, tb3) ==
    LET s1 == IF tb3["BASIC"] # <<>>
              THEN [s0 EXCEPT !["BYTES"] = tb3["BASIC"][1].val.a,
                              !["PACKETS"] = tb3["BASIC"][1].val.b]
              ELSE s0
        s2 == IF tb3["RATE_EST64"] # <<>>
              THEN [s1 EXCEPT !["RATE_BPS"] = tb3["RATE_EST64"][1].val.a,
                              !["RATE_PPS"] = tb3["RATE_EST64"][1].val.b]
              ELSE IF tb3["RATE_EST"] # <<>>
              THEN [s1 EXCEPT !["RATE_BPS"] = tb3["RATE_EST"][1].val.a,
                              !["RATE_PPS"] = tb3["RATE_EST"][1].val.b]
              ELSE s1
    IN  IF tb3["QUEUE"] # <<>>
        THEN [s2 EXCEPT !["DROPS"] = tb3["QUEUE"][1].val.a,
                        !["OVERLIMITS"] = tb3["QUEUE"][1].val.b]
        ELSE s2

\* to_msg_parser of a registered kind: decodes tc_opts into the data
KindParse(opts, data) == IF opts = <<>> THEN data ELSE opts[1].val

\* state of one rtnl_act_parse call: heap, tmp_head, the addresses
\* allocated and the objects as decoded, in order
PState(o) == [o |-> o, th |-> NULL, uaf |-> FALSE, allocd |-> <<>>, decoded |-> <<>>]

\* an early return: act (when set) and then tmp_head go out of scope, which
\* releases act and the whole working chain
ParseFail(st, act, err, h) ==
    LET o1 == IF act = NULL THEN st.o ELSE ObjPut(st.o, act)
        r == rtnl_act_put_all(o1, st.th)
    IN  [objs |-> r.objs, head |-> h,
         ret |-> IF r.ret = DIVERGES THEN DIVERGES ELSE err,
         uaf |-> st.uaf \/ (st.th # NULL /\ r.uaf),
         allocd |-> st.allocd, decoded |-> st.decoded]

\* the end of one loop iteration: act goes out of scope
EndOfIteration(o, act) == ObjPut(o, act)

\* indices the loop of rtnl_act_parse visits
LoopIndices == 0..(TCA_ACT_MAX_PRIO - 1)

RECURSIVE ParseLoop(_, _, _, _, _, _)
ParseLoop(st, i, nla, flt, reuse, h) ==
    IF i \notin LoopIndices
    THEN \* *head = _nl_steal_pointer(&tmp_head)
         [objs |-> st.o, head |-> st.th, ret |-> OK, uaf |-> st.uaf,
          allocd |-> st.allocd, decoded |-> st.decoded]
    ELSE IF nla[i] = <<>> THEN ParseLoop(st, i + 1, nla, flt, reuse, h)
    ELSE IF flt = Fault(i, "alloc") THEN ParseFail(st, NULL, NLE_NOMEM, h)
    ELSE
    LET act == AllocAddr(st.o, reuse)
        st1 == [st EXCEPT !.o = AllocAt(st.o, act), !.allocd = Append(@, act)]
        tb2 == NlaParse(nla[i][1].val, ActTypes)
    IN
    IF tb2["KIND"] = <<>> THEN ParseFail(st1, act, NLE_MISSING_ATTR, h)
    ELSE IF tb2["OPTIONS"] # <<>> /\ flt = Fault(i, "opts")
    THEN ParseFail([st1 EXCEPT !.o[act].tc_kind = nla_strlcpy(tb2["KIND"][1].val)],
                   act, NLE_NOMEM, h)
    ELSE
    LET kind == nla_strlcpy(tb2["KIND"][1].val)
        opts == IF tb2["OPTIONS"] # <<>> THEN tb2["OPTIONS"][1].val ELSE NoOpts
        o2 == [st1.o EXCEPT ![act].tc_kind = kind, ![act].tc_opts = opts]
        st2 == [st1 EXCEPT !.o = o2]
        hasStats == tb2["STATS"] # <<>>
    IN
    IF hasStats /\ ~StatsPolicyOk(tb2["STATS"][1].val)
    THEN ParseFail(st2, act, NLE_RANGE, h)
    ELSE
    LET stats == IF hasStats
                 THEN StatsDecode(o2[act].tc_stats,
                                  NlaParse(tb2["STATS"][1].val, StatTypes))
                 ELSE o2[act].tc_stats
        st3 == [st2 EXCEPT !.o[act].tc_stats = stats]
        ops == Registry(kind)
    IN
    IF ops.parser /\ flt = Fault(i, "data")
    THEN ParseFail(st3, act, NLE_NOMEM, h)
    ELSE IF ops.parser /\ flt = Fault(i, "parser")
    THEN ParseFail(st3, act, NLE_FAILURE, h)
    ELSE
    LET o4 == IF ops.parser
              THEN [st3.o EXCEPT ![act].tc_data = KindParse(opts, @)]
              ELSE st3.o
        r == rtnl_act_append(o4, st3.th, act)
        st4 == [st3 EXCEPT !.o = r.objs, !.th = r.head, !.uaf = @ \/ r.uaf,
                           !.decoded = Append(@, [idx |-> i, addr |-> act,
                                                  obj |-> o4[act]])]
    IN
    IF r.ret # OK THEN ParseFail(st4, act, r.ret, h)
    ELSE ParseLoop([st4 EXCEPT !.o = EndOfIteration(st4.o, act)],
                   i + 1, nla, flt, reuse, h)

\* rtnl_act_parse(&h, tb): [objs, head, ret, uaf, allocd, decoded]
rtnl_act_parse(o, h, payload, flt, reuse) ==
    ParseLoop(PState(o), 0, NlaParse(payload, 0..TCA_ACT_MAX_PRIO), flt, reuse, h)

---------------------------------------------------------------------------
(* The codec applied to input chains and to received containers *)

ObjT(kind, opts, data) ==
    [NewAct EXCEPT !.tc_kind = kind, !.tc_opts = opts, !.tc_data = data]

Templates ==
    { ObjT(Kind("A", 1), NoOpts, 0),
      ObjT(Kind("A", 1), <<Attr("RAW", 1)>>, 0),
      ObjT(Kind("B", 1), NoOpts, 1),
      ObjT(Kind("C", 1), NoOpts, 2),
      ObjT(Kind("A", TCKINDSIZ - 1), NoOpts, 0),
      ObjT(NoKind, NoOpts, 0) }

Filler(i) ==
    IF i % 3 = 0 THEN ObjT(Kind("A", 1), NoOpts, 0)
    ELSE IF i % 3 = 1 THEN ObjT(Kind("B", 1), NoOpts, 1)
    ELSE ObjT(Kind("C", 1), NoOpts, 2)

\* a chain of n objects at the addresses 1..n, linked in address order
ChainInput(n, pre) ==
    [i \in 1..n |->
        [(IF i <= Len(pre) THEN pre[i] ELSE Filler(i))
            EXCEPT !.a_next = IF i < n THEN i + 1 ELSE NULL]]

\* every chain of up to MaxFree objects over the templates, and for each
\* greater length up to TCA_ACT_MAX_PRIO + 1 the chains whose first object
\* is any template
Prefixes(n) == [1..(IF n <= MaxFree THEN n ELSE 1) -> Templates]

ChainInputs ==
    UNION { {ChainInput(n, pre) : pre \in Prefixes(n)} :
            n \in 0..(TCA_ACT_MAX_PRIO + 1) }

RECURSIVE Sorted(_)
Sorted(S) ==
    IF S = {} THEN <<>>
    ELSE LET m == CHOOSE x \in S : \A y \in S : x <= y IN <<m>> \o Sorted(S \ {m})

Reverse(s) == [i \in 1..Len(s) |-> s[Len(s) + 1 - i]]

IdxPool == (1..LowIdx) \cup ((TCA_ACT_MAX_PRIO - 1)..(TCA_ACT_MAX_PRIO + 1))

PlainKind(i) == IF i % 2 = 1 THEN Kind("A", 1) ELSE Kind("B", 1)

\* the inner nest of order index i; without KIND it carries OPTIONS only
Block(i, withKind) ==
    Attr(i, IF withKind THEN <<Attr("KIND", PlainKind(i))>>
            ELSE <<Attr("OPTIONS", <<Attr("RAW", 1)>>)>>)

\* containers with the indices S present, that of index k without KIND,
\* in ascending or descending order on the wire
SparseWire(S, k, desc) ==
    LET idx == IF desc THEN Reverse(Sorted(S)) ELSE Sorted(S) IN
    [j \in 1..Len(idx) |-> Block(idx[j], idx[j] # k)]

SparseWires ==
    { SparseWire(S, k, d) : S \in SUBSET IdxPool, k \in IdxPool \cup {0}, d \in BOOLEAN }

\* one statistics sub-attribute: its two counters, and whether it is as
\* long as the policy's minlen
StatAttr(t, scale, short) ==
    Attr(t, [len_ok |-> t # short,
             a |-> scale * (CASE t = "BASIC" -> 100 [] t = "QUEUE" -> 7
                              [] t = "RATE_EST" -> 3000 [] OTHER -> 600000000),
             b |-> scale * (CASE t = "BASIC" -> 5 [] t = "QUEUE" -> 9
                              [] t = "RATE_EST" -> 30 [] OTHER -> 64)])

StatOrder == <<"BASIC", "RATE_EST", "RATE_EST64", "QUEUE">>

\* statistics blocks with the sub-attributes P, that of type sh too short
StatsBlock(P, sc, sh) ==
    LET ts == SelectSeq(StatOrder, LAMBDA t : t \in P) IN
    [j \in 1..Len(ts) |-> StatAttr(ts[j], sc, sh)]

StatsBlocks ==
    { StatsBlock(P, sc, sh) :
      P \in SUBSET StatTypes, sc \in 1..MaxScale, sh \in StatTypes \cup {"none"} }

\* containers of one action with a statistics block
StatsWires ==
    { <<Attr(1, <<Attr("KIND", Kind("A", 1)), Attr("STATS", sb)>>)>> :
      sb \in StatsBlocks }

\* containers of one or two actions with options, a long kind name, or an
\* order index that occurs twice
OptWires ==
    { <<Attr(1, <<Attr("KIND", Kind("A", 1)), Attr("OPTIONS", <<Attr("RAW", 2)>>)>>)>>,
      <<Attr(1, <<Attr("KIND", Kind("B", 1)), Attr("OPTIONS", <<Attr("KOPT", 2)>>)>>),
        Attr(2, <<Attr("KIND", Kind("A", 1))>>)>>,
      <<Attr(1, <<Attr("KIND", Kind("C", 1)), Attr("OPTIONS", <<Attr("RAW", 1)>>)>>)>>,
      <<Attr(1, <<Attr("KIND", Kind("A", TCKINDSIZ + 8))>>)>>,
      <<Attr(1, <<Attr("KIND", Kind("A", 1))>>), Attr(1, <<Attr("KIND", Kind("B", 1))>>)>> }

WireInputs == SparseWires \cup StatsWires \cup OptWires

\* the chain head the caller holds when it parses a received container
OneObj == ChainInput(1, <<ObjT(Kind("A", 1), NoOpts, 0)>>)

InitCodec ==
    /\ \/ /\ objs \in ChainInputs
          /\ msg = <<>>
          /\ last = Call("chain", 0)
       \/ /\ objs \in {<<>>, OneObj}
          /\ msg \in WireInputs
          /\ last = Call("wire", 0)
    /\ head = IF Len(objs) = 0 THEN NULL ELSE 1
    /\ ret = NONE
    /\ uaf = FALSE
    /\ cbLog = <<>>
    /\ nlh = NoHdr
    /\ req = NoReq

Rooms == (0..MaxRoom) \cup {4 * (TCA_ACT_MAX_PRIO + 1) + 1}

FaultIdx == 1..(LowIdx + 1)
Faults ==
    {NoFault} \cup {Fault(i, w) : i \in FaultIdx, w \in {"alloc", "opts", "data", "parser"}}

\* the fault has something to act on: the container has the order index,
\* with OPTIONS for a failing copy of the options, with a kind that has a
\* parser for a failing rtnl_tc_data or to_msg_parser
FaultApplies(flt, payload) ==
    \E k \in 1..Len(payload) :
        /\ payload[k].type = flt.at
        /\ LET tb2 == NlaParse(payload[k].val, ActTypes) IN
           CASE flt.what = "alloc" -> TRUE
             [] flt.what = "opts" -> tb2["OPTIONS"] # <<>>
             [] OTHER -> tb2["KIND"] # <<>> /\ Registry(tb2["KIND"][1].val).parser

\* the application serialises its chain
FillAct ==
    /\ last.op = "chain"
    /\ \E room \in Rooms :
        \E r \in {rtnl_act_fill(objs, head, room)} :
            /\ msg' = r.m.tab
            /\ ret' = r.ret
    /\ last' = Call("fill", head)
    /\ UNCHANGED <<objs, head, uaf, cbLog, nlh, req>>

\* the application parses the container it built or received into head
ParseAct ==
    /\ \/ last.op = "fill" /\ ret = OK
       \/ last.op = "wire"
    /\ \E flt \in Faults, reuse \in BOOLEAN :
        /\ flt = NoFault \/ FaultApplies(flt, msg)
        /\ \E r \in {rtnl_act_parse(objs, head, msg, flt, reuse)} :
            /\ objs' = r.objs
            /\ head' = r.head
            /\ ret' = r.ret
            /\ uaf' = (uaf \/ r.uaf)
                /\ last' = [Call("parse", head) EXCEPT
                            !.allocd = r.allocd, !.decoded = r.decoded,
                            !.flt = flt, !.reuse = reuse]
    /\ UNCHANGED <<msg, cbLog, nlh, req>>

NextCodec == FillAct \/ ParseAct

SpecCodec == InitCodec /\ [][NextCodec]_vars

---------------------------------------------------------------------------
(* The cache adapter *)

\* rtnl_act_msg_parse(n, &act): [objs, act, ret, uaf, allocd, decoded]
rtnl_act_msg_parse(o, act, hdr, payload, flt, reuse) ==
    LET tc == act
        o1 == [o EXCEPT ![tc].ce_msgtype = hdr.type]
        fail(oo, err) == [objs |-> oo, head |-> act, ret |-> err, uaf |-> FALSE,
                          allocd |-> <<>>, decoded |-> <<>>]
    IN
    IF ~hdr.hdr_ok THEN fail(o1, NLE_MSG_TOOSHORT)
    ELSE
    LET o2 == [o1 EXCEPT ![tc].tc_family = hdr.family] IN
    IF ~hdr.has_tab THEN fail(o2, NLE_MISSING_ATTR)
    ELSE rtnl_act_parse(o2, act, payload, flt, reuse)

\* the value the callback returns at its k-th invocation
CbReturn(cb, k) == IF cb.stop = k THEN cb.code ELSE OK

\* the object act_msg_parser hands to the callback while its loop is at p_act
Delivered(act, p_act) == act

\* the delivery loop of act_msg_parser: [log, ret]; the loop does not end
\* on a cyclic chain while the callback returns 0
RECURSIVE Deliver(_, _, _, _, _, _)
Deliver(o, act, p_act, cb, log, fuel) ==
    IF p_act = NULL THEN [log |-> log, ret |-> OK]
    ELSE IF fuel = 0 THEN [log |-> log, ret |-> DIVERGES]
    ELSE
    LET log1 == Append(log, Delivered(act, p_act))
        err == CbReturn(cb, Len(log1))
    IN  IF err # OK
        THEN [log |-> log1, ret |-> IF err = "positive" THEN NLE_FAILURE ELSE err]
        ELSE Deliver(o, act, o[p_act].a_next, cb, log1, fuel - 1)

\* errout of act_msg_parser: rtnl_act_put(act), return err; r is what
\* rtnl_act_msg_parse returned (dret records its return value) and d what
\* the delivery loop returned
MsgParserErrout(act0, r, d) ==
    [objs |-> IF r.head = NULL \/ d.ret = DIVERGES THEN r.objs
              ELSE ObjPut(r.objs, r.head),
     head |-> r.head, ret |-> d.ret,
     uaf |-> r.uaf \/ (r.ret = OK /\ TouchesFreed(r.objs, Members(r.objs, r.head))),
     allocd |-> <<act0>> \o r.allocd, decoded |-> r.decoded, log |-> d.log,
     dret |-> r.ret]

\* act_msg_parser after rtnl_act_msg_parse returned r
MsgParserLoop(act0, r, cb) ==
    TheOne({ MsgParserErrout(act0, r, d) :
             d \in { IF r.ret = OK
                     THEN Deliver(r.objs, r.head, r.head, cb, <<>>, Len(r.objs) + 1)
                     ELSE [log |-> <<>>, ret |-> r.ret] } })

\* act_msg_parser: [objs, head, ret, uaf, allocd, decoded, log]; head is
\* the value of the local act when the function returns
act_msg_parser(o, hdr, payload, flt, reuse, cb) ==
    IF flt = Fault(0, "alloc")
    THEN [objs |-> o, head |-> NULL, ret |-> NLE_NOMEM, uaf |-> FALSE,
          allocd |-> <<>>, decoded |-> <<>>, log |-> <<>>, dret |-> NONE]
    ELSE
    LET act0 == AllocAddr(o, reuse) IN
    TheOne({ MsgParserLoop(act0, r, cb) :
             r \in { rtnl_act_msg_parse(AllocAt(o, act0), act0, hdr, payload,
                                        flt, reuse) } })

Headers ==
    { [type |-> RTM_NEWACTION, family |-> AF_UNSPEC, hdr_ok |-> TRUE, has_tab |-> TRUE],
      [type |-> RTM_DELACTION, family |-> 2, hdr_ok |-> TRUE, has_tab |-> TRUE],
      [type |-> RTM_NEWACTION, family |-> 2, hdr_ok |-> FALSE, has_tab |-> TRUE],
      [type |-> RTM_NEWACTION, family |-> 2, hdr_ok |-> TRUE, has_tab |-> FALSE] }

CacheWires == {w \in SparseWires : Len(w) <= MaxCacheLen} \cup OptWires

Callbacks ==
    {NoCb} \cup [stop : 1..MaxStop, code : {NLE_NOMEM, "positive"}]

InitCache ==
    /\ objs = <<>>
    /\ head = NULL
    /\ ret = NONE
    /\ last = Call("msg", 0)
    /\ uaf = FALSE
    /\ nlh \in Headers
    /\ msg \in IF nlh.has_tab THEN CacheWires ELSE {<<>>}
    /\ cbLog = <<>>
    /\ req = NoReq

\* the cache receives one message
MsgParserAct ==
    /\ last.op = "msg"
    /\ \E flt \in Faults \cup {Fault(0, "alloc")}, reuse \in BOOLEAN, cb \in Callbacks :
        /\ flt \in {NoFault, Fault(0, "alloc")} \/ FaultApplies(flt, msg)
        /\ \E r \in {act_msg_parser(objs, nlh, msg, flt, reuse, cb)} :
            /\ objs' = r.objs
            /\ head' = r.head
            /\ ret' = r.ret
            /\ uaf' = r.uaf
            /\ cbLog' = r.log
            /\ last' = [Call("msg_parser", 0) EXCEPT
                            !.allocd = r.allocd, !.decoded = r.decoded,
                            !.flt = flt, !.reuse = reuse, !.cb = cb,
                            !.dret = r.dret]
    /\ UNCHANGED <<msg, nlh, req>>

NextCache == MsgParserAct

SpecCache == InitCache /\ [][NextCache]_vars

---------------------------------------------------------------------------
(* Request building: rtnl_act_build_*_request and rtnl_act_add / change /  *)
(* delete.  Netlink message flags are a set of flag names; the bitwise or  *)
(* of two flag words is the union of the sets.                             *)

NLM_F_REPLACE == "NLM_F_REPLACE"
FlagNames == {NLM_F_REPLACE, "NLM_F_CREATE", "NLM_F_EXCL"}

\* nlmsg_alloc_simple(type, flags) followed by nlmsg_append of the tcamsg
NlMsg(type, flags, family, tab) ==
    [type |-> type, flags |-> flags, family |-> family, tab |-> tab]

\* an error exit that returns without freeing the message
nla_put_failure_NoFree(err, result) ==
    [ret |-> err, result |-> result, msgs |-> <<"live">>]

\* the label nla_put_failure of rtnl_act_msg_build: nlmsg_free(msg) and
\* return err, *result as it was
nla_put_failure(err, result) ==
    [ret |-> err, result |-> result, msgs |-> <<"freed">>]

\* rtnl_act_msg_build: [ret, result, msgs]; result is what *result holds
\* after the call, msgs the state of the message the call allocated
rtnl_act_msg_build(o, act, type, flags, result, room, flt) ==
    IF flt = "nlmsg_alloc" THEN [ret |-> NLE_NOMEM, result |-> result, msgs |-> <<>>]
    ELSE IF flt = "nlmsg_append" THEN nla_put_failure(NLE_MSGSIZE, result)
    ELSE
    TheOne({ IF r.ret # OK
             THEN nla_put_failure(r.ret, result)
             ELSE [ret |-> OK, result |-> NlMsg(type, flags, AF_UNSPEC, r.m.tab),
                   msgs |-> <<"live">>] :
             r \in {rtnl_act_fill(o, act, room)} })

act_build(o, act, type, flags, result, room, flt) ==
    rtnl_act_msg_build(o, act, type, flags, result, room, flt)

rtnl_act_build_add_request(o, act, flags, result, room, flt) ==
    act_build(o, act, RTM_NEWACTION, flags, result, room, flt)

\* a change request that passes the caller's flags on as they are
build_change_PlainFlags(o, act, flags, result, room, flt) ==
    act_build(o, act, RTM_NEWACTION, flags, result, room, flt)

rtnl_act_build_change_request(o, act, flags, result, room, flt) ==
    act_build(o, act, RTM_NEWACTION, {NLM_F_REPLACE} \cup flags, result, room, flt)

rtnl_act_build_delete_request(o, act, flags, result, room, flt) ==
    act_build(o, act, RTM_DELACTION, flags, result, room, flt)

BuildRequest(which, o, act, flags, result, room, flt) ==
    CASE which = "add" -> rtnl_act_build_add_request(o, act, flags, result, room, flt)
      [] which = "change" -> rtnl_act_build_change_request(o, act, flags, result, room, flt)
      [] OTHER -> rtnl_act_build_delete_request(o, act, flags, result, room, flt)

\* nl_send_sync(sk, msg): hands the message to the transport, frees it and
\* returns what the transport answered
nl_send_sync(b, answer) ==
    [ret |-> answer, msgs |-> <<"freed">>, sent |-> <<b.result>>]

\* rtnl_act_add / rtnl_act_change / rtnl_act_delete: [ret, msgs, sent]; the
\* message is built into a local variable
SendRequest(which, o, act, flags, room, flt, answer) ==
    TheOne({ IF b.ret # OK
             THEN [ret |-> b.ret, msgs |-> b.msgs, sent |-> <<>>]
             ELSE nl_send_sync(b, answer) :
             b \in {BuildRequest(which, o, act, flags, Unwritten, room, flt)} })

Requests == {"add", "change", "delete"}
BuildFaults == {"none", "nlmsg_alloc", "nlmsg_append"}
Answers == {OK, NLE_OBJ_NOTFOUND}

\* the chains a request is built from
RequestChains == {c \in ChainInputs : Len(c) <= MaxFree \/ Len(c) >= TCA_ACT_MAX_PRIO}

InitBuild ==
    /\ objs \in RequestChains
    /\ head = IF Len(objs) = 0 THEN NULL ELSE 1
    /\ ret = NONE
    /\ last = Call("req", 0)
    /\ uaf = FALSE
    /\ msg = <<>>
    /\ cbLog = <<>>
    /\ nlh = NoHdr
    /\ req = NoReq

\* the application builds a request into its result pointer
BuildRequestAct ==
    /\ last.op = "req"
    /\ \E which \in Requests, flags \in SUBSET FlagNames, room \in Rooms,
          flt \in BuildFaults :
        \E b \in {BuildRequest(which, objs, head, flags, req.result, room, flt)} :
            /\ ret' = b.ret
            /\ req' = [result |-> b.result, msgs |-> b.msgs, sent |-> <<>>]
            /\ last' = [Call("build", room) EXCEPT !.which = which, !.flags = flags,
                                                !.bflt = flt]
    /\ UNCHANGED <<objs, head, uaf, msg, cbLog, nlh>>

\* the application calls rtnl_act_add, rtnl_act_change or rtnl_act_delete
SendRequestAct ==
    /\ last.op = "req"
    /\ \E which \in Requests, flags \in SUBSET FlagNames, room \in Rooms,
          flt \in BuildFaults, answer \in Answers :
        \E r \in {SendRequest(which, objs, head, flags, room, flt, answer)} :
            /\ ret' = r.ret
            /\ req' = [result |-> Unwritten, msgs |-> r.msgs, sent |-> r.sent]
            /\ last' = [Call("send", room) EXCEPT !.which = which, !.flags = flags,
                                               !.bflt = flt]
    /\ UNCHANGED <<objs, head, uaf, msg, cbLog, nlh>>

NextBuild == BuildRequestAct \/ SendRequestAct

SpecBuild == InitBuild /\ [][NextBuild]_vars

---------------------------------------------------------------------------
(* Claims about the list operations, checked under Spec *)

ChainLen == Len(Chain(objs, head))

\* C2 (as claimed): a chain never holds more than TCA_ACT_MAX_PRIO objects;
\* an append to a chain that holds TCA_ACT_MAX_PRIO objects fails.
C2_LengthBounded ==
    ~Cyclic(objs, head) => ChainLen <= TCA_ACT_MAX_PRIO

\* C6: rtnl_act_remove of an object that is not linked in the (acyclic)
\* chain returns -NLE_OBJ_NOTFOUND and changes neither the head, nor any
\* object, nor any a_next link; objects are told apart by identity.
C6_RemoveNotFound ==
    [][ ( /\ last'.op = "remove"
          /\ ~Cyclic(objs, head)
          /\ last'.arg \notin Members(objs, head) )
        => ( ret' = NLE_OBJ_NOTFOUND /\ objs' = objs /\ head' = head ) ]_vars

\* a remove that missed although a linked object has the same content
C6_Witness ==
    /\ last.op = "remove" /\ ret = NLE_OBJ_NOTFOUND
    /\ \E m \in Members(objs, head) :
          m # last.arg /\ SameContent(objs[m], objs[last.arg])

\* C7: rtnl_act_put_all on an empty chain changes nothing; on an acyclic
\* chain whose objects are live with exactly one reference each it drops
\* every member to zero references, destroys each exactly once, touches no
\* other object and leaves the head NULL (so a second call changes nothing).
C7_PutAll ==
    [][ last'.op = "put_all" =>
          /\ head = NULL => (objs' = objs /\ head' = NULL /\ ret' = OK)
          /\ ( /\ head # NULL /\ ~Cyclic(objs, head)
               /\ \A m \in Members(objs, head) :
                     objs[m].st = "live" /\ objs[m].ce_refcnt = 1 )
             => ( /\ head' = NULL
                  /\ \A a \in Addrs(objs) :
                        IF a \in Members(objs, head)
                        THEN /\ objs'[a].ce_refcnt = 0
                             /\ objs'[a].st = "freed"
                             /\ objs'[a].frees = objs[a].frees + 1
                        ELSE objs'[a] = objs[a] ) ]_vars

\* a chain of two or more objects has just been released
C7_Witness ==
    /\ last.op = "put_all" /\ last.arg # NULL /\ head = NULL
    /\ Cardinality(Freed(objs)) >= 2
    /\ \A a \in Freed(objs) : objs[a].frees = 1 /\ objs[a].ce_refcnt = 0

\* C15: rtnl_act_remove of an object linked in the (acyclic) chain, at
\* the head, in the middle or at the tail, returns 0, unlinks exactly that
\* object, keeps the other objects in their order (so the length drops by
\* one), sets the a_next of the removed object to NULL and changes no
\* other field of any object, reference counts included.
C15_RemoveMember ==
    [][ ( /\ last'.op = "remove"
          /\ ~Cyclic(objs, head)
          /\ last'.arg \in Members(objs, head) )
        => ( /\ ret' = OK
             /\ Chain(objs', head') =
                  SelectSeq(Chain(objs, head), LAMBDA m : m # last'.arg)
             /\ Len(Chain(objs', head')) = ChainLen - 1
             /\ objs'[last'.arg].a_next = NULL
             /\ \A a \in Addrs(objs) :
                   [objs'[a] EXCEPT !.a_next = NULL] =
                   [objs[a] EXCEPT !.a_next = NULL] ) ]_vars

\* an object has just been removed from between two others
C15_Witness ==
    /\ last.op = "remove" /\ ret = OK
    /\ ~Cyclic(objs, head)
    /\ objs[last.arg].a_next = NULL
    /\ last.arg \notin Members(objs, head)
    /\ \E i \in 1..(ChainLen - 1) :
          Chain(objs, head)[i] < last.arg /\ last.arg < Chain(objs, head)[i + 1]

\* C19 (as claimed): rtnl_act_append and rtnl_act_remove, the append of
\* an object that already is a member of the chain included, keep the
\* chain a finite acyclic list in which no object occurs twice.
C19_WellFormed ==
    [][ ( /\ last'.op \in {"append", "remove"}
          /\ ~Cyclic(objs, head) )
        => ~Cyclic(objs', head') ]_vars

\* C20 (as claimed): in every reachable state, also after rtnl_act_put_all
\* has released a chain of which a consumer holds an object by
\* rtnl_act_get, no live object's a_next refers to a destroyed object.
C20_NoDanglingLink ==
    \A a \in Addrs(objs) :
        ( Live(objs, a) /\ objs[a].a_next # NULL )
        => objs[objs[a].a_next].st # "freed"

---------------------------------------------------------------------------
(* Claims about the codec, checked under SpecCodec *)

KindsOf(o, h) == [i \in 1..Len(Chain(o, h)) |-> o[Chain(o, h)[i]].tc_kind]

\* the container as nla_parse tables it, and its order indices
MsgTab == NlaParse(msg, 0..TCA_ACT_MAX_PRIO)
Present == {i \in 1..TCA_ACT_MAX_PRIO : MsgTab[i] # <<>>}
InnerTab(i) == NlaParse(MsgTab[i][1].val, ActTypes)
HasKind(i) == InnerTab(i)["KIND"] # <<>>

\* a parse of the container just built from the caller's chain, without
\* an allocation or kind parser failure
RoundTripStep ==
    /\ last.op = "fill" /\ ret = OK
    /\ last'.op = "parse" /\ last'.flt = NoFault

\* C1 (as claimed): a chain of 1..TCA_ACT_MAX_PRIO objects that all have a
\* kind, serialised by rtnl_act_fill and parsed by rtnl_act_parse, comes
\* back as a chain of the same length with the same kinds in the same order.
C1_RoundTrip ==
    [][ ( /\ RoundTripStep
          /\ ChainLen \in 1..TCA_ACT_MAX_PRIO
          /\ \A a \in Members(objs, head) : objs[a].tc_kind # NoKind )
        => ( /\ ret' = OK
             /\ KindsOf(objs', head') = KindsOf(objs, head) ) ]_vars

\* an object of a kind without registered operations that carries options
RawOnly(obj) ==
    obj.tc_kind # NoKind /\ Registry(obj.tc_kind) = NoOps /\ obj.tc_opts # NoOpts

\* C4 (as claimed): an object whose kind has no registered operations and
\* which carries raw options comes back from rtnl_act_fill followed by
\* rtnl_act_parse with the same kind and the same options.
C4_RawOptionsRoundTrip ==
    [][ ( /\ RoundTripStep
          /\ ChainLen = 1
          /\ RawOnly(objs[head]) )
        => ( /\ ret' = OK /\ head' # NULL
             /\ objs'[head'].tc_kind = objs[head].tc_kind
             /\ objs'[head'].tc_opts = objs[head].tc_opts ) ]_vars

\* a parse of a received container without an allocation or kind parser
\* failure
WireStep == last.op = "wire" /\ last'.op = "parse" /\ last'.flt = NoFault

\* C5 (as claimed): when every order index present in the container is in
\* 1..TCA_ACT_MAX_PRIO and has a KIND, rtnl_act_parse returns a chain with
\* exactly one object per present index, in ascending index order.
C5_SparseCompaction ==
    [][ ( /\ WireStep
          /\ \A k \in 1..Len(msg) : msg[k].type \in Present
          /\ \A i \in Present :
                HasKind(i) /\ InnerTab(i)["STATS"] = <<>> )
        => ( /\ ret' = OK
             /\ KindsOf(objs', head') =
                  [j \in 1..Cardinality(Present) |->
                      nla_strlcpy(InnerTab(Sorted(Present)[j])["KIND"][1].val)] ) ]_vars

\* C8 (as claimed): when a present order index in 1..TCA_ACT_MAX_PRIO has
\* no KIND, rtnl_act_parse returns -NLE_MISSING_ATTR and does not write
\* the caller's head.
C8_MissingKind ==
    [][ ( /\ WireStep
          /\ \E i \in Present : ~HasKind(i) )
        => ( ret' = NLE_MISSING_ATTR /\ head' = head ) ]_vars

\* C9 (as claimed): when rtnl_act_parse returns an error, every object it
\* allocated in that call has been released exactly once.
C9_NoLeakOnError ==
    ( last.op = "parse" /\ ret \notin {OK, DIVERGES} )
    => \A a \in Range(last.allocd) :
          objs[a].st = "freed" /\ objs[a].frees = 1

\* the statistics block of the container's order index i as nla_parse
\* tables it
StatsTab(i) == NlaParse(InnerTab(i)["STATS"][1].val, StatTypes)

\* C10: for every object rtnl_act_parse decodes from a block with STATS,
\* RATE_BPS and RATE_PPS are those of RATE_EST64 when it is present (also
\* when RATE_EST is present too), and those of RATE_EST when only that one
\* is present.
C10_RatePrecedence ==
    last.op = "parse" =>
      \A k \in 1..Len(last.decoded) :
        LET d == last.decoded[k]
            rate == <<d.obj.tc_stats["RATE_BPS"], d.obj.tc_stats["RATE_PPS"]>>
        IN  InnerTab(d.idx)["STATS"] # <<>> =>
              LET tb3 == StatsTab(d.idx) IN
              /\ tb3["RATE_EST64"] # <<>> =>
                    rate = <<tb3["RATE_EST64"][1].val.a, tb3["RATE_EST64"][1].val.b>>
              /\ (tb3["RATE_EST64"] = <<>> /\ tb3["RATE_EST"] # <<>>) =>
                    rate = <<tb3["RATE_EST"][1].val.a, tb3["RATE_EST"][1].val.b>>

\* a block with both estimates, of different values, has been decoded
C10_Witness ==
    /\ last.op = "parse" /\ ret = OK
    /\ \E k \in 1..Len(last.decoded) :
        LET i == last.decoded[k].idx IN
        /\ InnerTab(i)["STATS"] # <<>>
        /\ StatsTab(i)["RATE_EST64"] # <<>> /\ StatsTab(i)["RATE_EST"] # <<>>
        /\ StatsTab(i)["RATE_EST64"][1].val.a # StatsTab(i)["RATE_EST"][1].val.a
        /\ last.decoded[k].obj.tc_stats["RATE_BPS"] = StatsTab(i)["RATE_EST64"][1].val.a

\* what rtnl_act_fill_one writes for an object: its KIND when it has one,
\* and the options its registered operations emit from its data
NestOf(obj) ==
    (IF obj.tc_kind # NoKind THEN <<Attr("KIND", obj.tc_kind)>> ELSE <<>>)
    \o (IF Registry(obj.tc_kind).fill
        THEN <<Attr("OPTIONS", <<Attr("KOPT", obj.tc_data)>>)>>
        ELSE IF Registry(obj.tc_kind).fill_raw
        THEN <<Attr("OPTIONS", <<Attr("RAW", obj.tc_data)>>)>>
        ELSE <<>>)

\* C14: for a chain e1..en, rtnl_act_fill writes into the container
\* exactly n inner nests, tagged 1, 2, ..., n in this order, and the nest
\* tagged i describes ei.
C14_OrderIndices ==
    ( last.op = "fill" /\ ret = OK ) =>
        LET c == Chain(objs, head) IN
        /\ Len(msg) = Len(c)
        /\ \A i \in 1..Len(c) :
              msg[i].type = i /\ msg[i].val = NestOf(objs[c[i]])

\* a chain of TCA_ACT_MAX_PRIO objects, not all of one kind, was serialised
C14_Witness ==
    /\ last.op = "fill" /\ ret = OK
    /\ Len(msg) = TCA_ACT_MAX_PRIO
    /\ msg[TCA_ACT_MAX_PRIO].type = TCA_ACT_MAX_PRIO
    /\ msg[1].val # msg[2].val /\ msg[2].val # msg[3].val

\* the two counters of the sub-attribute t of a statistics block, zero
\* when the block has none
CountersOf(tb3, t) ==
    IF tb3[t] = <<>> THEN <<0, 0>> ELSE <<tb3[t][1].val.a, tb3[t][1].val.b>>

\* C17: for every object rtnl_act_parse decodes from a block with STATS,
\* whatever subset of sub-attributes the statistics block holds, BYTES and
\* PACKETS are those of BASIC, DROPS and OVERLIMITS those of QUEUE, RATE_BPS
\* and RATE_PPS those of a rate estimate, and the counters of an absent
\* sub-attribute are zero.
C17_StatsPerAttribute ==
    last.op = "parse" =>
      \A k \in 1..Len(last.decoded) :
        LET d == last.decoded[k]
            st == d.obj.tc_stats
        IN  InnerTab(d.idx)["STATS"] # <<>> =>
              LET tb3 == StatsTab(d.idx) IN
              /\ <<st["BYTES"], st["PACKETS"]>> = CountersOf(tb3, "BASIC")
              /\ <<st["DROPS"], st["OVERLIMITS"]>> = CountersOf(tb3, "QUEUE")
              /\ <<st["RATE_BPS"], st["RATE_PPS"]>> =
                    CountersOf(tb3, IF tb3["RATE_EST64"] # <<>> THEN "RATE_EST64"
                                    ELSE "RATE_EST")

\* a statistics block with only BASIC (bytes 100, packets 5) was decoded
C17_Witness ==
    /\ last.op = "parse" /\ ret = OK
    /\ \E k \in 1..Len(last.decoded) :
        LET d == last.decoded[k] IN
        /\ InnerTab(d.idx)["STATS"] # <<>>
        /\ \A t \in StatTypes : StatsTab(d.idx)[t] # <<>> <=> t = "BASIC"
        /\ d.obj.tc_stats = [ZeroStats EXCEPT !["BYTES"] = 100, !["PACKETS"] = 5]

---------------------------------------------------------------------------
(* Claims about the cache adapter, checked under SpecCache *)

\* C3 (as claimed): when act_msg_parser decodes a message into the chain
\* e1..en and the callback returns 0 every time, the callback is invoked
\* n times and its i-th invocation receives ei.
C3_DeliveryInOrder ==
    ( last.op = "msg_parser" /\ last.cb = NoCb /\ ret = OK )
    => cbLog = Chain(objs, head)

\* C13 (as claimed): when rtnl_act_msg_parse fails (header parse error,
\* missing TCA_ACT_TAB, or rtnl_act_parse failure), act_msg_parser invokes
\* no callback, returns that error, and the object it allocated for the
\* message has been released exactly once.
C13_DecodeError ==
    ( last.op = "msg_parser" /\ last.dret \notin {OK, NONE} ) =>
        /\ cbLog = <<>>
        /\ ret = last.dret
        /\ ret # DIVERGES
        /\ objs[last.allocd[1]].st = "freed"
        /\ objs[last.allocd[1]].frees = 1

\* C16 (as claimed): after act_msg_parser has parsed a received message,
\* every object handed to the callback carries the family and the message
\* type of the message.
C16_MessageFields ==
    ( last.op = "msg_parser" /\ last.dret = OK ) =>
        \A k \in 1..Len(cbLog) :
            /\ objs[cbLog[k]].tc_family = nlh.family
            /\ objs[cbLog[k]].ce_msgtype = nlh.type

\* C18 (as claimed): when act_msg_parser returns (the callback keeps no
\* reference), every object allocated during the call, the one allocated
\* for the message and those rtnl_act_parse created, has been released.
C18_ReferenceBalance ==
    ( last.op = "msg_parser" /\ ret # DIVERGES ) =>
        \A a \in Range(last.allocd) : objs[a].st = "freed"

---------------------------------------------------------------------------
(* Claims about request building, checked under SpecBuild *)

\* C11: for every set F of caller flags, a built add request is a
\* RTM_NEWACTION message with flags F, a built change request a
\* RTM_NEWACTION message with flags F and NLM_F_REPLACE, and a built delete
\* request a RTM_DELACTION message with flags F (NLM_F_REPLACE only when
\* it is in F).
C11_RequestIntents ==
    ( last.op = "build" /\ ret = OK ) =>
        /\ last.which = "add" =>
              req.result.type = RTM_NEWACTION /\ req.result.flags = last.flags
        /\ last.which = "change" =>
              /\ req.result.type = RTM_NEWACTION
              /\ req.result.flags = last.flags \cup {NLM_F_REPLACE}
        /\ last.which = "delete" =>
              req.result.type = RTM_DELACTION /\ req.result.flags = last.flags

\* a change request built from caller flags without NLM_F_REPLACE
C11_Witness ==
    /\ last.op = "build" /\ ret = OK
    /\ last.which = "change"
    /\ NLM_F_REPLACE \notin last.flags
    /\ NLM_F_REPLACE \in req.result.flags
    /\ "NLM_F_CREATE" \in req.result.flags

\* a step of the build fails: the message allocation, the header append or
\* rtnl_act_fill on the chain with the room the message has
BuildFails ==
    last.bflt # "none" \/ rtnl_act_fill(objs, head, last.arg).ret # OK

\* C12: when a step of building a request fails (message allocation,
\* header append, or the fill of any object of the chain), the error is
\* returned, the message allocated is freed, *result is not written, and
\* rtnl_act_add / rtnl_act_change / rtnl_act_delete send nothing.
C12_FailedBuild ==
    ( last.op \in {"build", "send"} /\ BuildFails ) =>
        /\ ret # OK
        /\ ret = (CASE last.bflt = "nlmsg_alloc" -> NLE_NOMEM
                    [] last.bflt = "nlmsg_append" -> NLE_MSGSIZE
                    [] OTHER -> rtnl_act_fill(objs, head, last.arg).ret)
        /\ req.result = Unwritten
        /\ req.msgs = IF last.bflt = "nlmsg_alloc" THEN <<>> ELSE <<"freed">>
        /\ req.sent = <<>>

\* rtnl_act_add, rtnl_act_change or rtnl_act_delete has returned the error
\* of filling the second object of a chain
C12_Witness ==
    /\ last.op = "send" /\ last.bflt = "none"
    /\ Len(objs) >= 2
    /\ rtnl_act_fill(objs, head, last.arg).ret = NLE_NOMEM
    /\ Len(rtnl_act_fill(objs, head, last.arg).m.tab) >= 1
    /\ ret = NLE_NOMEM /\ req.msgs = <<"freed">> /\ req.sent = <<>>

===========================================================================
